---- MODULE Spec2Model ----
(***************************************************************************)
(* intrusive_ptr<T> and intrusive_ref_counter<T> (solution.h).             *)
(*                                                                         *)
(* Counted objects live at the addresses 1..NumObjs, 0 is nullptr.  A      *)
(* handle is a slot of Handles that is either constructed (hlive) or not.  *)
(* Spec and SpecManual run whole member functions as single steps of one   *)
(* thread and record the last call in `last`.                              *)
(***************************************************************************)
EXTENDS Integers, Sequences, FiniteSets, TLC

\* ------------------------------------------------------------------ bounds
NumObjs == 2
NumHandles == 3
\* width of details::stored_type in the model (unsigned int in the source)
CounterBits == 3
\* calls that hand the counting to the caller (detach, add_ref = false, a
\* direct intrusive_ptr_add_ref) made in one run
MaxManual == 2
\* objects and handles of SpecManual
NumManualObjs == 1
NumManualHandles == 2
\* threads of SpecMT
NumThreads == 2
\* objects the threads of SpecMT start with
NumThreadObjs == 1

Null == 0
Objs == 1..NumObjs
Addr == 0..NumObjs
Handles == 1..NumHandles
Threads == 1..NumThreads
ManualObjs == 1..NumManualObjs
ManualHandles == 1..NumManualHandles
Modulus == 2^CounterBits
stored_type == 0..(Modulus - 1)

VARIABLES
  counter,      \* counter[o]: intrusive_ref_counter::counter of object o
  life,         \* life[o]: "none" (not constructed), "live", "destroyed"
  dtors,        \* dtors[o]: how many times delete ran on o
  uaf,          \* an add_ref/release/delete touched a destroyed object
  hlive,        \* hlive[h]: handle slot h holds a constructed intrusive_ptr
  obj_pointer,  \* obj_pointer[h]: the handle's address (0 = nullptr)
  manual,       \* manual[o]: how often o was detached, adopted with
                \* add_ref = false or counted by a direct intrusive_ptr_add_ref
  last,         \* the call that has just run and not yet returned: its name,
                \* arguments, result and pre-state
  obs7,         \* observer: detach(), then intrusive_ptr(p, false), then ~
  obs8,         \* observer: intrusive_ptr(p, false), then detach(), then ~
  scen9,        \* observer: the A / H1 / H2 / H3 scenario
  scen10,       \* observer: the B scenario (external increment, adoption)
  thr           \* thr[t]: where thread t is inside a member function (SpecMT)

vars == <<counter, life, dtors, uaf, hlive, obj_pointer, manual, last,
          obs7, obs8, scen9, scen10, thr>>

\* ------------------------------------------------------- the counter mixin

\* the memory the protocol functions work on, with the number of add_ref and
\* release calls made since the current call began and the value the last
\* dec() of the call returned
Mem ==
  [counter |-> counter, life |-> life, dtors |-> dtors, uaf |-> uaf,
   adds |-> 0, rels |-> 0, seen |-> 0]

\* mutant of inc: the counter is left as it is
inc_skips(c) == c

\* counter.fetch_add(1)
inc(c) == (c + 1) % Modulus

\* mutant of dec: returns the value after the decrement
dec_returns_new(c) ==
  [ret |-> (c + Modulus - 1) % Modulus, stored |-> (c + Modulus - 1) % Modulus]

\* mutant of dec: a counter at 0 stays at 0
dec_saturates(c) ==
  [ret |-> c, stored |-> IF c = 0 THEN 0 ELSE c - 1]

\* counter.fetch_sub(1): the value returned and the value stored
dec(c) == [ret |-> c, stored |-> (c + Modulus - 1) % Modulus]

\* delete static_cast<const Derived*>(p)
delete(m, p) ==
  [m EXCEPT !.life[p] = "destroyed",
            !.dtors[p] = @ + 1,
            !.uaf = @ \/ m.life[p] # "live"]

\* what fetch_sub can return: the counter of a live object; anything at all
\* when p is freed memory
Observed(m, p) ==
  IF p = Null THEN {0}
  ELSE IF m.life[p] = "live" THEN {m.counter[p]}
  ELSE stored_type

intrusive_ptr_add_ref(m, p) ==
  IF m.life[p] = "live"
  THEN [m EXCEPT !.counter[p] = inc(@), !.adds = @ + 1]
  ELSE [m EXCEPT !.uaf = TRUE, !.adds = @ + 1]

\* p->dec() as intrusive_ptr_release calls it: the memory after it
release_decrement(m, p, seen) ==
  IF m.life[p] = "live"
  THEN [m EXCEPT !.counter[p] = dec(seen).stored, !.rels = @ + 1,
                 !.seen = dec(seen).ret]
  ELSE [m EXCEPT !.uaf = TRUE, !.rels = @ + 1, !.seen = dec(seen).ret]

\* mutant of release_deletes: deletes when dec() returned 0
release_deletes_at_zero(seen) == dec(seen).ret = 0

\* if (p->dec() == 1)
release_deletes(seen) == dec(seen).ret = 1

intrusive_ptr_release(m, p, seen) ==
  IF release_deletes(seen)
  THEN delete(release_decrement(m, p, seen), p)
  ELSE release_decrement(m, p, seen)

\* --------------------------------------------- constructors and destructor

\* mutant of Construct: add_ref is ignored and no reference is added
Construct_never_adds(m, p, add_ref) == m

\* mutant of Construct: add_ref is ignored and a reference is always added
Construct_always_adds(m, p, add_ref) ==
  IF p # Null THEN intrusive_ptr_add_ref(m, p) ELSE m

\* intrusive_ptr(T* p, bool add_ref): the memory after the call
Construct(m, p, add_ref) ==
  IF add_ref /\ p # Null THEN intrusive_ptr_add_ref(m, p) ELSE m

\* mutant of CopyConstruct: the copy adds no reference
CopyConstruct_no_ref(m, rp) == m

\* intrusive_ptr(intrusive_ptr const& r), r.obj_pointer = rp
CopyConstruct(m, rp) ==
  IF rp # Null THEN intrusive_ptr_add_ref(m, rp) ELSE m

\* ~intrusive_ptr() of a handle holding p
Destroy(m, p, seen) ==
  IF p # Null THEN intrusive_ptr_release(m, p, seen) ELSE m

\* raw addresses a caller may pass: nullptr or an object that is alive
RawArgs == {Null} \cup {o \in Objs : life[o] = "live"}

\* ------------------------------------------------------------ the observers

NoObs == [stage |-> 0, h |-> 0, h2 |-> 0, o |-> 0, c |-> 0]

\* detach() of a handle holding a live object, then intrusive_ptr(p, false) from the
\* detached address, then the destructor of the detached handle
Step7(s, l) ==
  IF l.op = "Detach" /\ l.ret # Null /\ l.pre_life[l.ret] = "live"
  THEN [stage |-> 1, h |-> l.a, h2 |-> 0, o |-> l.ret, c |-> l.pre[l.ret]]
  ELSE IF s.stage = 1 /\ l.op = "RawCtor" /\ ~l.add_ref /\ l.p = s.o
  THEN [s EXCEPT !.stage = 2, !.h2 = l.a]
  ELSE IF s.stage = 2 /\ l.op = "Dtor" /\ l.a = s.h
  THEN [s EXCEPT !.stage = 3]
  ELSE NoObs

\* intrusive_ptr(p, false), then detach() of that handle, then its destructor
Step8(s, l) ==
  IF l.op = "RawCtor" /\ ~l.add_ref
  THEN [stage |-> 1, h |-> l.a, h2 |-> 0, o |-> l.p,
        c |-> IF l.p = Null THEN 0 ELSE l.pre[l.p]]
  ELSE IF s.stage = 1 /\ l.op = "Detach" /\ l.a = s.h
  THEN [s EXCEPT !.stage = 2]
  ELSE IF s.stage = 2 /\ l.op = "Dtor" /\ l.a = s.h
  THEN [s EXCEPT !.stage = 3]
  ELSE NoObs

NoScen == [stage |-> 0, o |-> 0, h1 |-> 0, h2 |-> 0, h3 |-> 0]

\* new A; H1(A); H2(H1); H3(std::move(H2)); ~H3; ~H1
Step9(s, l) ==
  IF l.op = "NewObject"
  THEN [NoScen EXCEPT !.stage = 1, !.o = l.p]
  ELSE IF s.stage = 1 /\ l.op = "RawCtor" /\ l.add_ref /\ l.p = s.o
  THEN [s EXCEPT !.stage = 2, !.h1 = l.a]
  ELSE IF s.stage = 2 /\ l.op = "CopyCtor" /\ l.b = s.h1
  THEN [s EXCEPT !.stage = 3, !.h2 = l.a]
  ELSE IF s.stage = 3 /\ l.op = "MoveCtor" /\ l.b = s.h2
  THEN [s EXCEPT !.stage = 4, !.h3 = l.a]
  ELSE IF s.stage = 4 /\ l.op = "Dtor" /\ l.a = s.h3
  THEN [s EXCEPT !.stage = 5]
  ELSE IF s.stage = 5 /\ l.op = "Dtor" /\ l.a = s.h1
  THEN [s EXCEPT !.stage = 6]
  ELSE NoScen

\* new B; intrusive_ptr_add_ref(B); H(B, false); ~H
Step10(s, l) ==
  IF l.op = "NewObject"
  THEN [NoScen EXCEPT !.stage = 1, !.o = l.p]
  ELSE IF s.stage = 1 /\ l.op = "ExternalAddRef" /\ l.p = s.o
  THEN [s EXCEPT !.stage = 2]
  ELSE IF s.stage = 2 /\ l.op = "RawCtor" /\ ~l.add_ref /\ l.p = s.o
  THEN [s EXCEPT !.stage = 3, !.h1 = l.a]
  ELSE IF s.stage = 3 /\ l.op = "Dtor" /\ l.a = s.h1
  THEN [s EXCEPT !.stage = 4]
  ELSE NoScen

\* ------------------------------------------------------------- bookkeeping

\* the record of a call: op(a, b, p, add_ref) returned ret and left memory m
Call(op, a, b, p, add_ref, ret, m) ==
  [op |-> op, a |-> a, b |-> b, p |-> p, add_ref |-> add_ref, ret |-> ret,
   pre |-> counter, pre_ptr |-> obj_pointer, pre_life |-> life,
   adds |-> m.adds, rels |-> m.rels, seen |-> m.seen]

NoCall ==
  [op |-> "none", a |-> 0, b |-> 0, p |-> 0, add_ref |-> FALSE, ret |-> 0,
   pre |-> [o \in Objs |-> 0], pre_ptr |-> [h \in Handles |-> 0],
   pre_life |-> [o \in Objs |-> "none"], adds |-> 0, rels |-> 0, seen |-> 0]

\* the state after a call
Commit(m, ptrs, hl, man, l) ==
  /\ counter' = m.counter
  /\ life' = m.life
  /\ dtors' = m.dtors
  /\ uaf' = m.uaf
  /\ obj_pointer' = ptrs
  /\ hlive' = hl
  /\ manual' = man
  /\ last' = l
  /\ obs7' = Step7(obs7, l)
  /\ obs8' = Step8(obs8, l)
  /\ scen9' = Step9(scen9, l)
  /\ scen10' = Step10(scen10, l)
  /\ thr' = thr

Mark(p) == IF p = Null THEN manual ELSE [manual EXCEPT ![p] = @ + 1]

RECURSIVE Sum(_, _)
Sum(f, S) == IF S = {} THEN 0 ELSE LET x == CHOOSE y \in S : TRUE
                                   IN f[x] + Sum(f, S \ {x})

\* the next call may begin: the last one has returned and no call has
\* touched a destroyed object yet
Running == ~uaf /\ last.op = "none"

\* another call that hands the counting of p to the caller is within bounds
MayHandOver(p) == p = Null \/ Sum(manual, Objs) < MaxManual

\* a handle is constructed in the first free slot, an object at the first
\* free address
FreeSlot(a) == ~hlive[a] /\ \A h \in Handles : h < a => hlive[h]

FreeAddr(o) == life[o] = "none" /\ \A x \in Objs : x < o => life[x] # "none"

\* a thread outside every member function
Idle == [pc |-> "idle", tmp |-> Null, tgt |-> 0, src |-> 0, del |-> FALSE]

Init ==
  /\ counter = [o \in Objs |-> 0]
  /\ life = [o \in Objs |-> "none"]
  /\ dtors = [o \in Objs |-> 0]
  /\ uaf = FALSE
  /\ hlive = [h \in Handles |-> FALSE]
  /\ obj_pointer = [h \in Handles |-> Null]
  /\ manual = [o \in Objs |-> 0]
  /\ last = NoCall
  /\ obs7 = NoObs
  /\ obs8 = NoObs
  /\ scen9 = NoScen
  /\ scen10 = NoScen
  /\ thr = [t \in Threads |-> Idle]

\* ---------------------------------------------------------------- handles

\* slot 0 stands for the temporary of an assignment or a reset
Temp == 0

WithTemp(ptrs, tp) == [h \in {Temp} \cup Handles |-> IF h = Temp THEN tp ELSE ptrs[h]]

NoTemp(ptrs) == [h \in Handles |-> ptrs[h]]

\* mutant of swap: b.obj_pointer is not overwritten
swap_one_way(ptrs, this, b) == [ptrs EXCEPT ![this] = ptrs[b]]

\* void swap(intrusive_ptr& b): std::swap(b.obj_pointer, this->obj_pointer)
swap(ptrs, this, b) == [ptrs EXCEPT ![b] = ptrs[this], ![this] = ptrs[b]]

\* mutant of detach: obj_pointer is not set to nullptr
detach_keeps(p) == [ret |-> p, left |-> p]

\* T* detach(): the address returned and the address left in the handle
detach(p) == [ret |-> p, left |-> Null]

\* mutant of MoveConstruct: r.obj_pointer is not set to nullptr
MoveConstruct_keeps(rp) == [taken |-> rp, left |-> rp]

\* intrusive_ptr(intrusive_ptr&& r): the address taken and the one left in r
MoveConstruct(rp) == [taken |-> rp, left |-> Null]

\* "intrusive_ptr(...).swap(*this);" of the call recorded as c, once the
\* temporary holds tp and memory is m: the swap, then the temporary's
\* destructor
SwapAndDestroy(m, ptrs, this, tp, c) ==
  LET s == swap(WithTemp(ptrs, tp), Temp, this)
  IN \E seen \in Observed(m, s[Temp]) :
       LET m2 == Destroy(m, s[Temp], seen)
       IN Commit(m2, NoTemp(s), hlive, manual,
                 [c EXCEPT !.adds = m2.adds, !.rels = m2.rels,
                           !.seen = m2.seen])

\* intrusive_ref_counter(): counter = 0
NewObject(o) ==
  /\ Running
  /\ FreeAddr(o)
  /\ LET m == [Mem EXCEPT !.life[o] = "live", !.counter[o] = 0]
     IN Commit(m, obj_pointer, hlive, manual,
               Call("NewObject", 0, 0, o, FALSE, 0, m))

\* unsigned int use_count() const: counter.load()
use_count(o) == counter[o]

\* mutant of ObjCopyCtor: the copy starts with the source's count
ObjCopyCtor_copies_count(o, src) ==
  /\ Running
  /\ FreeAddr(o)
  /\ life[src] = "live"
  /\ LET m == [Mem EXCEPT !.life[o] = "live", !.counter[o] = counter[src]]
     IN Commit(m, obj_pointer, hlive, manual,
               Call("ObjCopyCtor", 0, 0, o, FALSE, src, m))

\* intrusive_ref_counter(const intrusive_ref_counter&) {}: counter = 0
ObjCopyCtor(o, src) ==
  /\ Running
  /\ FreeAddr(o)
  /\ life[src] = "live"
  /\ LET m == [Mem EXCEPT !.life[o] = "live", !.counter[o] = 0]
     IN Commit(m, obj_pointer, hlive, manual,
               Call("ObjCopyCtor", 0, 0, o, FALSE, src, m))

\* intrusive_ref_counter& operator=(const intrusive_ref_counter&)
ObjAssign(o, src) ==
  /\ Running
  /\ life[o] = "live"
  /\ life[src] = "live"
  /\ Commit(Mem, obj_pointer, hlive, manual,
            Call("ObjAssign", 0, 0, o, FALSE, src, Mem))

\* intrusive_ptr() noexcept = default
DefaultCtor(a) ==
  /\ Running
  /\ FreeSlot(a)
  /\ Commit(Mem, [obj_pointer EXCEPT ![a] = Null], [hlive EXCEPT ![a] = TRUE],
            manual, Call("DefaultCtor", a, 0, 0, FALSE, 0, Mem))

\* intrusive_ptr(T* p, bool add_ref = true)
RawCtor(a, p, add_ref) ==
  /\ Running
  /\ FreeSlot(a)
  /\ p \in RawArgs
  /\ add_ref \/ MayHandOver(p)
  /\ LET m == Construct(Mem, p, add_ref)
     IN Commit(m, [obj_pointer EXCEPT ![a] = p], [hlive EXCEPT ![a] = TRUE],
               IF add_ref THEN manual ELSE Mark(p),
               Call("RawCtor", a, 0, p, add_ref, 0, m))

\* intrusive_ptr(intrusive_ptr const& r)
CopyCtor(a, b) ==
  /\ Running
  /\ FreeSlot(a)
  /\ hlive[b]
  /\ LET m == CopyConstruct(Mem, obj_pointer[b])
     IN Commit(m, [obj_pointer EXCEPT ![a] = obj_pointer[b]],
               [hlive EXCEPT ![a] = TRUE], manual,
               Call("CopyCtor", a, b, 0, FALSE, 0, m))

\* template <class Y> intrusive_ptr(intrusive_ptr<Y> const& r)
ConvCopyCtor(a, b) ==
  /\ Running
  /\ FreeSlot(a)
  /\ hlive[b]
  /\ LET m == CopyConstruct(Mem, obj_pointer[b])
     IN Commit(m, [obj_pointer EXCEPT ![a] = obj_pointer[b]],
               [hlive EXCEPT ![a] = TRUE], manual,
               Call("ConvCopyCtor", a, b, 0, FALSE, 0, m))

\* intrusive_ptr(intrusive_ptr&& r)
MoveCtor(a, b) ==
  /\ Running
  /\ FreeSlot(a)
  /\ hlive[b]
  /\ LET mv == MoveConstruct(obj_pointer[b])
     IN Commit(Mem, [obj_pointer EXCEPT ![a] = mv.taken, ![b] = mv.left],
               [hlive EXCEPT ![a] = TRUE], manual,
               Call("MoveCtor", a, b, 0, FALSE, 0, Mem))

\* template <class Y> intrusive_ptr(intrusive_ptr<Y>&& r)
ConvMoveCtor(a, b) ==
  /\ Running
  /\ FreeSlot(a)
  /\ hlive[b]
  /\ LET mv == MoveConstruct(obj_pointer[b])
     IN Commit(Mem, [obj_pointer EXCEPT ![a] = mv.taken, ![b] = mv.left],
               [hlive EXCEPT ![a] = TRUE], manual,
               Call("ConvMoveCtor", a, b, 0, FALSE, 0, Mem))

\* ~intrusive_ptr()
Dtor(a) ==
  /\ Running
  /\ hlive[a]
  /\ \E seen \in Observed(Mem, obj_pointer[a]) :
       LET m == Destroy(Mem, obj_pointer[a], seen)
       IN Commit(m, [obj_pointer EXCEPT ![a] = Null],
                 [hlive EXCEPT ![a] = FALSE], manual,
                 Call("Dtor", a, 0, 0, FALSE, 0, m))

\* mutant of CopyAssign: no self check, the old reference is released
\* before the new one is added
CopyAssign_release_first(a, b) ==
  /\ Running
  /\ hlive[a]
  /\ hlive[b]
  /\ \E seen \in Observed(Mem, obj_pointer[a]) :
       LET m1 == Destroy(Mem, obj_pointer[a], seen)
           m2 == CopyConstruct(m1, obj_pointer[b])
       IN Commit(m2, [obj_pointer EXCEPT ![a] = obj_pointer[b]], hlive,
                 manual, Call("CopyAssign", a, b, 0, FALSE, 0, m2))

\* intrusive_ptr& operator=(intrusive_ptr const& r)
CopyAssign(a, b) ==
  /\ Running
  /\ hlive[a]
  /\ hlive[b]
  /\ LET c == Call("CopyAssign", a, b, 0, FALSE, 0, Mem)
     IN IF a # b
        THEN SwapAndDestroy(CopyConstruct(Mem, obj_pointer[b]), obj_pointer,
                            a, obj_pointer[b], c)
        ELSE Commit(Mem, obj_pointer, hlive, manual, c)

\* mutant of ConvCopyAssign: the old reference is released before the new
\* one is added
ConvCopyAssign_release_first(a, b) ==
  /\ Running
  /\ hlive[a]
  /\ hlive[b]
  /\ a # b
  /\ \E seen \in Observed(Mem, obj_pointer[a]) :
       LET m1 == Destroy(Mem, obj_pointer[a], seen)
           m2 == CopyConstruct(m1, obj_pointer[b])
       IN Commit(m2, [obj_pointer EXCEPT ![a] = obj_pointer[b]], hlive,
                 manual, Call("ConvCopyAssign", a, b, 0, FALSE, 0, m2))

\* template <class Y> operator=(intrusive_ptr<Y> const& r): r is a handle of
\* another type, hence another handle
ConvCopyAssign(a, b) ==
  /\ Running
  /\ hlive[a]
  /\ hlive[b]
  /\ a # b
  /\ LET c == Call("ConvCopyAssign", a, b, 0, FALSE, 0, Mem)
     IN SwapAndDestroy(CopyConstruct(Mem, obj_pointer[b]), obj_pointer,
                       a, obj_pointer[b], c)

\* intrusive_ptr& operator=(T* r)
RawAssign(a, p) ==
  /\ Running
  /\ hlive[a]
  /\ p \in RawArgs
  /\ LET c == Call("RawAssign", a, 0, p, TRUE, 0, Mem)
     IN SwapAndDestroy(Construct(Mem, p, TRUE), obj_pointer, a, p, c)

\* intrusive_ptr& operator=(intrusive_ptr&& r)
MoveAssign(a, b) ==
  /\ Running
  /\ hlive[a]
  /\ hlive[b]
  /\ LET c == Call("MoveAssign", a, b, 0, FALSE, 0, Mem)
         mv == MoveConstruct(obj_pointer[b])
     IN IF a # b
        THEN SwapAndDestroy(Mem, [obj_pointer EXCEPT ![b] = mv.left],
                            a, mv.taken, c)
        ELSE Commit(Mem, obj_pointer, hlive, manual, c)

\* template <class Y> operator=(intrusive_ptr<Y>&& r)
ConvMoveAssign(a, b) ==
  /\ Running
  /\ hlive[a]
  /\ hlive[b]
  /\ a # b
  /\ LET c == Call("ConvMoveAssign", a, b, 0, FALSE, 0, Mem)
         mv == MoveConstruct(obj_pointer[b])
     IN SwapAndDestroy(Mem, [obj_pointer EXCEPT ![b] = mv.left],
                       a, mv.taken, c)

\* mutant of Reset: the handle is set to nullptr and its reference is not
\* released
Reset_no_release(a) ==
  /\ Running
  /\ hlive[a]
  /\ Commit(Mem, [obj_pointer EXCEPT ![a] = Null], hlive, manual,
            Call("Reset", a, 0, 0, FALSE, 0, Mem))

\* void reset()
Reset(a) ==
  /\ Running
  /\ hlive[a]
  /\ LET c == Call("Reset", a, 0, 0, FALSE, 0, Mem)
     IN SwapAndDestroy(Mem, obj_pointer, a, Null, c)

\* void reset(T* r)
ResetRaw(a, p) ==
  /\ Running
  /\ hlive[a]
  /\ p \in RawArgs
  /\ LET c == Call("ResetRaw", a, 0, p, TRUE, 0, Mem)
     IN SwapAndDestroy(Construct(Mem, p, TRUE), obj_pointer, a, p, c)

\* mutant of ResetRawAddRef: nothing is done when the handle already holds r
ResetRawAddRef_checks_self(a, p, add_ref) ==
  /\ Running
  /\ hlive[a]
  /\ p \in RawArgs
  /\ add_ref \/ MayHandOver(p)
  /\ LET c == Call("ResetRawAddRef", a, 0, p, add_ref, 0, Mem)
         s == swap(WithTemp(obj_pointer, p), Temp, a)
         m1 == Construct(Mem, p, add_ref)
     IN IF obj_pointer[a] = p
        THEN Commit(Mem, obj_pointer, hlive,
                    IF add_ref THEN manual ELSE Mark(p), c)
        ELSE \E seen \in Observed(m1, s[Temp]) :
               LET m2 == Destroy(m1, s[Temp], seen)
               IN Commit(m2, NoTemp(s), hlive,
                         IF add_ref THEN manual ELSE Mark(p),
                         [c EXCEPT !.adds = m2.adds, !.rels = m2.rels,
                                   !.seen = m2.seen])

\* void reset(T* r, bool add_ref)
ResetRawAddRef(a, p, add_ref) ==
  /\ Running
  /\ hlive[a]
  /\ p \in RawArgs
  /\ add_ref \/ MayHandOver(p)
  /\ LET c == Call("ResetRawAddRef", a, 0, p, add_ref, 0, Mem)
         s == swap(WithTemp(obj_pointer, p), Temp, a)
         m1 == Construct(Mem, p, add_ref)
     IN \E seen \in Observed(m1, s[Temp]) :
          LET m2 == Destroy(m1, s[Temp], seen)
          IN Commit(m2, NoTemp(s), hlive,
                    IF add_ref THEN manual ELSE Mark(p),
                    [c EXCEPT !.adds = m2.adds, !.rels = m2.rels,
                              !.seen = m2.seen])

\* T* detach() noexcept
Detach(a) ==
  /\ Running
  /\ hlive[a]
  /\ MayHandOver(obj_pointer[a])
  /\ LET d == detach(obj_pointer[a])
     IN Commit(Mem, [obj_pointer EXCEPT ![a] = d.left], hlive, Mark(d.ret),
               Call("Detach", a, 0, 0, FALSE, d.ret, Mem))

\* void swap(intrusive_ptr& b) noexcept
Swap(a, b) ==
  /\ Running
  /\ hlive[a]
  /\ hlive[b]
  /\ Commit(Mem, swap(obj_pointer, a, b), hlive, manual,
            Call("Swap", a, b, 0, FALSE, 0, Mem))

\* mutant of FreeSwap: a takes a counted copy of b's address and releases
\* its own, b keeps its address
FreeSwap_assigns(a, b) ==
  /\ Running
  /\ hlive[a]
  /\ hlive[b]
  /\ LET c == Call("FreeSwap", a, b, 0, FALSE, 0, Mem)
     IN SwapAndDestroy(CopyConstruct(Mem, obj_pointer[b]), obj_pointer,
                       a, obj_pointer[b], c)

\* template <class T> void swap(intrusive_ptr<T>& a, intrusive_ptr<T>& b)
FreeSwap(a, b) ==
  /\ Running
  /\ hlive[a]
  /\ hlive[b]
  /\ Commit(Mem, swap(obj_pointer, a, b), hlive, manual,
            Call("FreeSwap", a, b, 0, FALSE, 0, Mem))

\* T* get() const noexcept
get(a) == obj_pointer[a]

\* a bool result as the call record keeps it
Truth(v) == IF v THEN 1 ELSE 0

\* return a.get() == b.get(), of two addresses
operator_eq(x, y) == x = y

\* return a.get() != b.get(), of two addresses
operator_ne(x, y) == x # y

\* mutant of operator_less: less-or-equal
operator_less_or_equal(x, y) == x <= y

\* return std::less<T*>()(a.get(), b.get()): the total order of addresses
operator_less(x, y) == x < y

\* a comparison returns v and changes nothing
Compare(op, a, b, p, v) ==
  Commit(Mem, obj_pointer, hlive, manual,
         Call(op, a, b, p, FALSE, Truth(v), Mem))

\* bool operator==(intrusive_ptr<T> const& a, intrusive_ptr<U> const& b)
Equal(a, b) ==
  /\ Running
  /\ hlive[a] /\ hlive[b]
  /\ Compare("Equal", a, b, 0, operator_eq(get(a), get(b)))

\* bool operator!=(intrusive_ptr<T> const& a, intrusive_ptr<U> const& b)
NotEqual(a, b) ==
  /\ Running
  /\ hlive[a] /\ hlive[b]
  /\ Compare("NotEqual", a, b, 0, operator_ne(get(a), get(b)))

\* bool operator==(intrusive_ptr<T> const& a, U* b)
EqualRaw(a, p) ==
  /\ Running
  /\ hlive[a]
  /\ Compare("EqualRaw", a, 0, p, operator_eq(get(a), p))

\* bool operator!=(intrusive_ptr<T> const& a, U* b)
NotEqualRaw(a, p) ==
  /\ Running
  /\ hlive[a]
  /\ Compare("NotEqualRaw", a, 0, p, operator_ne(get(a), p))

\* bool operator==(T* a, intrusive_ptr<U> const& b)
RawEqual(p, b) ==
  /\ Running
  /\ hlive[b]
  /\ Compare("RawEqual", 0, b, p, operator_eq(p, get(b)))

\* bool operator!=(T* a, intrusive_ptr<U> const& b)
RawNotEqual(p, b) ==
  /\ Running
  /\ hlive[b]
  /\ Compare("RawNotEqual", 0, b, p, operator_ne(p, get(b)))

\* bool operator<(intrusive_ptr<T> const& a, intrusive_ptr<T> const& b)
Less(a, b) ==
  /\ Running
  /\ hlive[a] /\ hlive[b]
  /\ Compare("Less", a, b, 0, operator_less(get(a), get(b)))

\* a direct call of intrusive_ptr_add_ref(p), as a factory would make
ExternalAddRef(p) ==
  /\ Running
  /\ life[p] = "live"
  /\ MayHandOver(p)
  /\ LET m == intrusive_ptr_add_ref(Mem, p)
     IN Commit(m, obj_pointer, hlive, Mark(p),
               Call("ExternalAddRef", 0, 0, p, FALSE, 0, m))

\* the call returns: its record is dropped, nothing else changes
Return ==
  /\ last.op # "none"
  /\ last' = NoCall
  /\ UNCHANGED <<counter, life, dtors, uaf, hlive, obj_pointer, manual,
                 obs7, obs8, scen9, scen10, thr>>

\* single-threaded use in which only handles count references
Next ==
  \/ Return
  \/ \E o \in Objs : NewObject(o)
  \/ \E o, src \in Objs : ObjCopyCtor(o, src)
  \/ \E o, src \in Objs : ObjAssign(o, src)
  \/ \E a \in Handles : DefaultCtor(a)
  \/ \E a \in Handles, p \in Addr : RawCtor(a, p, TRUE)
  \/ \E a, b \in Handles : CopyCtor(a, b)
  \/ \E a, b \in Handles : ConvCopyCtor(a, b)
  \/ \E a, b \in Handles : MoveCtor(a, b)
  \/ \E a, b \in Handles : ConvMoveCtor(a, b)
  \/ \E a \in Handles : Dtor(a)
  \/ \E a, b \in Handles : CopyAssign(a, b)
  \/ \E a, b \in Handles : ConvCopyAssign(a, b)
  \/ \E a \in Handles, p \in Addr : RawAssign(a, p)
  \/ \E a, b \in Handles : MoveAssign(a, b)
  \/ \E a, b \in Handles : ConvMoveAssign(a, b)
  \/ \E a \in Handles : Reset(a)
  \/ \E a \in Handles, p \in Addr : ResetRaw(a, p)
  \/ \E a \in Handles, p \in Addr : ResetRawAddRef(a, p, TRUE)
  \/ \E a, b \in Handles : Swap(a, b)
  \/ \E a, b \in Handles : FreeSwap(a, b)
  \/ \E a, b \in Handles : Equal(a, b)
  \/ \E a, b \in Handles : NotEqual(a, b)
  \/ \E a \in Handles, p \in Addr : EqualRaw(a, p)
  \/ \E a \in Handles, p \in Addr : NotEqualRaw(a, p)
  \/ \E b \in Handles, p \in Addr : RawEqual(p, b)
  \/ \E b \in Handles, p \in Addr : RawNotEqual(p, b)
  \/ \E a, b \in Handles : Less(a, b)

Spec == Init /\ [][Next]_vars

\* single-threaded use in which the caller counts references too: detach(),
\* add_ref = false and direct calls of intrusive_ptr_add_ref, on the objects
\* ManualObjs and the handles ManualHandles
NextManual ==
  \/ Return
  \/ \E o \in ManualObjs : NewObject(o)
  \/ \E a \in ManualHandles : DefaultCtor(a)
  \/ \E a \in ManualHandles, p \in Addr, add_ref \in BOOLEAN :
       RawCtor(a, p, add_ref)
  \/ \E a, b \in ManualHandles : CopyCtor(a, b)
  \/ \E a, b \in ManualHandles : MoveCtor(a, b)
  \/ \E a \in ManualHandles : Dtor(a)
  \/ \E a, b \in ManualHandles : CopyAssign(a, b)
  \/ \E a \in ManualHandles, p \in Addr : RawAssign(a, p)
  \/ \E a, b \in ManualHandles : MoveAssign(a, b)
  \/ \E a \in ManualHandles : Reset(a)
  \/ \E a \in ManualHandles, p \in Addr : ResetRaw(a, p)
  \/ \E a \in ManualHandles, p \in Addr, add_ref \in BOOLEAN :
       ResetRawAddRef(a, p, add_ref)
  \/ \E a \in ManualHandles : Detach(a)
  \/ \E a, b \in ManualHandles : Swap(a, b)
  \/ \E p \in ManualObjs : ExternalAddRef(p)

SpecManual == Init /\ [][NextManual]_vars

\* ---------------------------------------------------------------- threads
(***************************************************************************)
(* SpecMT: the member functions run by NumThreads threads, one access to   *)
(* shared memory (a handle's obj_pointer, a counter, a delete) per step.   *)
(* The threads start with handles the main thread built for them: slot h   *)
(* belongs to thread Owner(h).  With shared = FALSE a thread names only    *)
(* its own handles; with shared = TRUE it may copy or move from any.       *)
(***************************************************************************)

Owner(h) == ((h - 1) % NumThreads) + 1

Access(t, h, shared) == shared \/ Owner(h) = t

\* the first free slot of thread t
OwnFreeSlot(t, a) ==
  /\ Owner(a) = t
  /\ ~hlive[a]
  /\ \A h \in Handles : Owner(h) = t /\ h < a => hlive[h]

\* raw addresses thread t may pass: nullptr or what one of its handles holds
HeldBy(t) ==
  {Null} \cup {obj_pointer[h] : h \in {x \in Handles : Owner(x) = t /\ hlive[x]}}

\* a thread that has made its last access and is about to return, after a
\* release of p (del: it ran the delete)
Done(p, del) == [Idle EXCEPT !.pc = "done", !.tmp = p, !.del = del]

\* after the temporary or the dying handle came to hold p: its destructor
AtDestructor(p) ==
  IF p # Null THEN [Idle EXCEPT !.pc = "dec", !.tmp = p] ELSE Done(Null, FALSE)

CommitMT(m, ptrs, hl, th) ==
  /\ counter' = m.counter
  /\ life' = m.life
  /\ dtors' = m.dtors
  /\ uaf' = m.uaf
  /\ obj_pointer' = ptrs
  /\ hlive' = hl
  /\ thr' = th
  /\ UNCHANGED <<manual, last, obs7, obs8, scen9, scen10>>

InitMT ==
  /\ hlive \in [Handles -> BOOLEAN]
  /\ obj_pointer \in [Handles -> {Null} \cup (1..NumThreadObjs)]
  /\ \A h \in Handles : ~hlive[h] => obj_pointer[h] = Null
  \* the objects are numbered in the order the handles first point at them
  /\ \A h \in Handles, o \in Objs :
       obj_pointer[h] = o =>
         \A q \in 1..(o - 1) : \E g \in 1..(h - 1) : obj_pointer[g] = q
  /\ counter =
       [o \in Objs |-> Cardinality({h \in Handles : hlive[h] /\ obj_pointer[h] = o})]
  /\ life = [o \in Objs |-> IF counter[o] > 0 THEN "live" ELSE "none"]
  /\ dtors = [o \in Objs |-> 0]
  /\ uaf = FALSE
  /\ manual = [o \in Objs |-> 0]
  /\ last = NoCall
  /\ obs7 = NoObs
  /\ obs8 = NoObs
  /\ scen9 = NoScen
  /\ scen10 = NoScen
  /\ thr = [t \in Threads |-> Idle]

Starts(t) == Running /\ thr[t].pc = "idle"

\* intrusive_ptr(intrusive_ptr const& r): obj_pointer(r.obj_pointer)
T_CopyCtor(t, a, b, shared) ==
  /\ Starts(t)
  /\ OwnFreeSlot(t, a)
  /\ hlive[b] /\ Access(t, b, shared)
  /\ CommitMT(Mem, obj_pointer, hlive,
              [thr EXCEPT ![t] = [Idle EXCEPT !.pc = "copy_inc",
                                              !.tmp = obj_pointer[b],
                                              !.tgt = a]])

\* ... if (obj_pointer != nullptr) intrusive_ptr_add_ref(obj_pointer);
T_CopyInc(t) ==
  /\ Running
  /\ thr[t].pc = "copy_inc"
  /\ CommitMT(CopyConstruct(Mem, thr[t].tmp),
              [obj_pointer EXCEPT ![thr[t].tgt] = thr[t].tmp],
              [hlive EXCEPT ![thr[t].tgt] = TRUE],
              [thr EXCEPT ![t] = Idle])

\* intrusive_ptr(T* p), p an address the thread holds a reference to
T_RawCtor(t, a, p) ==
  /\ Starts(t)
  /\ OwnFreeSlot(t, a)
  /\ p \in HeldBy(t)
  /\ CommitMT(Construct(Mem, p, TRUE), [obj_pointer EXCEPT ![a] = p],
              [hlive EXCEPT ![a] = TRUE], thr)

\* intrusive_ptr(intrusive_ptr&& r): obj_pointer(r.obj_pointer)
T_MoveCtor(t, a, b, shared) ==
  /\ Starts(t)
  /\ OwnFreeSlot(t, a)
  /\ hlive[b] /\ Access(t, b, shared)
  /\ CommitMT(Mem, obj_pointer, hlive,
              [thr EXCEPT ![t] = [Idle EXCEPT !.pc = "move_null",
                                              !.tmp = obj_pointer[b],
                                              !.tgt = a, !.src = b]])

\* ... r.obj_pointer = nullptr;
T_MoveNull(t) ==
  /\ Running
  /\ thr[t].pc = "move_null"
  /\ LET mv == MoveConstruct(thr[t].tmp)
     IN CommitMT(Mem,
                 [obj_pointer EXCEPT ![thr[t].src] = mv.left,
                                     ![thr[t].tgt] = mv.taken],
                 [hlive EXCEPT ![thr[t].tgt] = TRUE],
                 [thr EXCEPT ![t] = Idle])

\* ~intrusive_ptr(): if (obj_pointer != nullptr) ...
T_Dtor(t, a) ==
  /\ Starts(t)
  /\ Owner(a) = t /\ hlive[a]
  /\ CommitMT(Mem, [obj_pointer EXCEPT ![a] = Null],
              [hlive EXCEPT ![a] = FALSE],
              [thr EXCEPT ![t] = AtDestructor(obj_pointer[a])])

\* intrusive_ptr_release: p->dec()
T_Dec(t) ==
  /\ Running
  /\ thr[t].pc = "dec"
  /\ \E seen \in Observed(Mem, thr[t].tmp) :
       CommitMT(release_decrement(Mem, thr[t].tmp, seen), obj_pointer, hlive,
                [thr EXCEPT ![t] =
                   IF release_deletes(seen)
                   THEN [Idle EXCEPT !.pc = "delete", !.tmp = thr[t].tmp]
                   ELSE Done(thr[t].tmp, FALSE)])

\* intrusive_ptr_release: delete static_cast<const Derived*>(p)
T_Delete(t) ==
  /\ Running
  /\ thr[t].pc = "delete"
  /\ CommitMT(delete(Mem, thr[t].tmp), obj_pointer, hlive,
              [thr EXCEPT ![t] = Done(thr[t].tmp, TRUE)])

\* the member function returns
T_Finish(t) ==
  /\ Running
  /\ thr[t].pc = "done"
  /\ CommitMT(Mem, obj_pointer, hlive, [thr EXCEPT ![t] = Idle])

\* operator=(intrusive_ptr const& r): if (this != &r) intrusive_ptr(r) ...
T_CopyAssign(t, a, b, shared) ==
  /\ Starts(t)
  /\ Owner(a) = t /\ hlive[a]
  /\ hlive[b] /\ Access(t, b, shared)
  /\ CommitMT(Mem, obj_pointer, hlive,
              [thr EXCEPT ![t] =
                 IF a # b
                 THEN [Idle EXCEPT !.pc = "assign_inc",
                                   !.tmp = obj_pointer[b], !.tgt = a]
                 ELSE Done(Null, FALSE)])

\* the temporary's intrusive_ptr_add_ref
T_AssignInc(t) ==
  /\ Running
  /\ thr[t].pc = "assign_inc"
  /\ CommitMT(CopyConstruct(Mem, thr[t].tmp), obj_pointer, hlive,
              [thr EXCEPT ![t].pc = "swap"])

\* operator=(intrusive_ptr&& r): if (this != &r) intrusive_ptr(std::move(r))
T_MoveAssign(t, a, b, shared) ==
  /\ Starts(t)
  /\ Owner(a) = t /\ hlive[a]
  /\ hlive[b] /\ Access(t, b, shared)
  /\ CommitMT(Mem, obj_pointer, hlive,
              [thr EXCEPT ![t] =
                 IF a # b
                 THEN [Idle EXCEPT !.pc = "assign_null",
                                   !.tmp = obj_pointer[b],
                                   !.tgt = a, !.src = b]
                 ELSE Done(Null, FALSE)])

\* the temporary's move constructor: r.obj_pointer = nullptr
T_AssignNull(t) ==
  /\ Running
  /\ thr[t].pc = "assign_null"
  /\ LET mv == MoveConstruct(thr[t].tmp)
     IN CommitMT(Mem, [obj_pointer EXCEPT ![thr[t].src] = mv.left], hlive,
                 [thr EXCEPT ![t].pc = "swap", ![t].tmp = mv.taken])

\* operator=(T* r) and reset(T* r): intrusive_ptr(r) ...
T_RawAssign(t, a, p) ==
  /\ Starts(t)
  /\ Owner(a) = t /\ hlive[a]
  /\ p \in HeldBy(t)
  /\ CommitMT(Construct(Mem, p, TRUE), obj_pointer, hlive,
              [thr EXCEPT ![t] = [Idle EXCEPT !.pc = "swap", !.tmp = p,
                                              !.tgt = a]])

\* reset(): intrusive_ptr() ...
T_Reset(t, a) ==
  /\ Starts(t)
  /\ Owner(a) = t /\ hlive[a]
  /\ CommitMT(Mem, obj_pointer, hlive,
              [thr EXCEPT ![t] = [Idle EXCEPT !.pc = "swap", !.tmp = Null,
                                              !.tgt = a]])

\* ... .swap(*this); the temporary's destructor follows
T_SwapTemp(t) ==
  /\ Running
  /\ thr[t].pc = "swap"
  /\ LET s == swap(WithTemp(obj_pointer, thr[t].tmp), Temp, thr[t].tgt)
     IN CommitMT(Mem, NoTemp(s), hlive,
                 [thr EXCEPT ![t] = AtDestructor(s[Temp])])

\* void swap(intrusive_ptr& b) on two handles of the thread
T_Swap(t, a, b) ==
  /\ Starts(t)
  /\ Owner(a) = t /\ hlive[a]
  /\ Owner(b) = t /\ hlive[b]
  /\ CommitMT(Mem, swap(obj_pointer, a, b), hlive, thr)

NextMT(shared) ==
  \E t \in Threads :
    \/ \E a, b \in Handles : T_CopyCtor(t, a, b, shared)
    \/ T_CopyInc(t)
    \/ \E a \in Handles, p \in Addr : T_RawCtor(t, a, p)
    \/ \E a, b \in Handles : T_MoveCtor(t, a, b, shared)
    \/ T_MoveNull(t)
    \/ \E a \in Handles : T_Dtor(t, a)
    \/ T_Dec(t)
    \/ T_Delete(t)
    \/ T_Finish(t)
    \/ \E a, b \in Handles : T_CopyAssign(t, a, b, shared)
    \/ T_AssignInc(t)
    \/ \E a, b \in Handles : T_MoveAssign(t, a, b, shared)
    \/ T_AssignNull(t)
    \/ \E a \in Handles, p \in Addr : T_RawAssign(t, a, p)
    \/ \E a \in Handles : T_Reset(t, a)
    \/ T_SwapTemp(t)
    \/ \E a, b \in Handles : T_Swap(t, a, b)

NextOwn == NextMT(FALSE)

SpecMT == InitMT /\ [][NextOwn]_vars

\* handle instances shared between threads: every thread may copy-construct
\* from any constructed handle, while the handle's own thread resets it or
\* assigns to it
NextShared ==
  \E t \in Threads :
    \/ \E a, b \in Handles : T_CopyCtor(t, a, b, TRUE)
    \/ T_CopyInc(t)
    \/ \E a \in Handles : T_Reset(t, a)
    \/ \E a \in Handles, p \in Addr : T_RawAssign(t, a, p)
    \/ \E a, b \in Handles : T_CopyAssign(t, a, b, FALSE)
    \/ T_AssignInc(t)
    \/ T_SwapTemp(t)
    \/ T_Dec(t)
    \/ T_Delete(t)
    \/ T_Finish(t)

SpecShared == InitMT /\ [][NextShared]_vars

\* ------------------------------------------------------------------ claims

\* the number of constructed handles whose address is o
Holders(o) == Cardinality({h \in Handles : hlive[h] /\ obj_pointer[h] = o})

\* no thread is inside a member function
Quiescent == \A t \in Threads : thr[t].pc \in {"idle", "done"}

\* temporaries and dying handles that hold a counted reference to o: a
\* temporary between its add_ref (or its move from the source) and its
\* release
InFlight(o) ==
  Cardinality({t \in Threads : thr[t].tmp = o /\ thr[t].pc \in {"swap", "dec"}})

\* C1: for every live object the counter equals the number of handle
\* instances that hold its address, temporaries included; whenever no member
\* function is in progress that is the number of constructed handles.  A
\* destroyed object has no holder.  No call touches a destroyed object.
C1_Counting ==
  /\ ~uaf
  /\ \A o \in Objs :
       /\ life[o] = "live" => counter[o] = Holders(o) + InFlight(o)
       /\ life[o] = "live" /\ Quiescent => counter[o] = Holders(o)
       /\ life[o] # "live" => Holders(o) + InFlight(o) = 0

\* C1 witness: every handle holds the object and one thread has just
\* assigned over one of them, so the count went from N = NumHandles to N + 1
\* with the temporary and back to N with its release
C1_Witness ==
  \E o \in Objs, t \in Threads :
    /\ Quiescent
    /\ thr[t].pc = "done" /\ thr[t].tmp = o /\ ~thr[t].del
    /\ Holders(o) = NumHandles /\ counter[o] = NumHandles

\* threads that have seen dec() return 1 for o and are about to delete it
Deleting(o) ==
  Cardinality({t \in Threads : thr[t].tmp = o /\ thr[t].pc = "delete"})

\* C2: the destructor of an object runs at most once, at most one release
\* ever sees dec() return 1, it runs only when no handle is left, and once
\* the last handle is gone and every release has returned it has run once.
C2_DestroyedOnce ==
  \A o \in Objs :
    /\ dtors[o] + Deleting(o) <= 1
    /\ dtors[o] = 1 <=> life[o] = "destroyed"
    /\ dtors[o] + Deleting(o) = 1 => counter[o] = 0 /\ Holders(o) = 0
    /\ \A t1, t2 \in Threads :
         (/\ t1 # t2
          /\ thr[t1].pc = "done" /\ thr[t1].tmp = o
          /\ thr[t2].pc = "done" /\ thr[t2].tmp = o)
           => ~(thr[t1].del /\ thr[t2].del)
    /\ (Quiescent /\ life[o] # "none" /\ Holders(o) = 0) => dtors[o] = 1

\* C2 witness: two threads released the last two references of one object
\* and neither has returned: one saw 2 and is done, the other saw 1 and is
\* at the delete
C2_Witness ==
  \E o \in Objs, t1, t2 \in Threads :
    /\ t1 # t2
    /\ thr[t1].pc = "delete" /\ thr[t1].tmp = o
    /\ thr[t2].pc = "done" /\ thr[t2].tmp = o /\ ~thr[t2].del
    /\ counter[o] = 0 /\ dtors[o] = 0

MoveCtors == {"MoveCtor", "ConvMoveCtor"}
MoveAssigns == {"MoveAssign", "ConvMoveAssign"}

\* C3: an object is destroyed only by a release whose decrement returned 1
\* (a destroyed object's counter reads 0, its destructor ran, and the call
\* that destroyed it made a release), and as long as an object was never
\* detached, adopted with add_ref = false or counted by hand, no constructed
\* handle holds its address once it is destroyed.
C3_NoDangling ==
  \A o \in Objs :
    /\ life[o] = "destroyed" /\ ~uaf => counter[o] = 0 /\ dtors[o] = 1
    /\ life[o] # "destroyed" => dtors[o] = 0
    /\ last.op # "none" /\ last.pre_life[o] = "live" /\ life[o] = "destroyed"
         => last.rels >= 1
    /\ manual[o] = 0 /\ life[o] = "destroyed" => Holders(o) = 0

\* C3 witness: the destructor of the last handle has just destroyed an
\* object that was only ever counted by handles, while another handle stays
C3_Witness ==
  \E o \in Objs :
    /\ last.op = "Dtor" /\ last.pre_ptr[last.a] = o /\ last.pre[o] = 1
    /\ manual[o] = 0 /\ life[o] = "destroyed"
    /\ \E h \in Handles : hlive[h] /\ obj_pointer[h] \notin {Null, o}

\* the object a move took from its source b (0 when b was null)
Moved == last.pre_ptr[last.b]

\* C4 as stated: a move construction or move assignment from a non-null
\* source into another handle leaves use_count() of the moved object as it
\* was, the source null and the target holding the source's former address
\* (checked here for objects only ever counted by handles).
C4_MoveKeepsCount ==
  last.op \in MoveCtors \cup MoveAssigns /\ last.a # last.b /\ Moved # Null
    => (manual[Moved] = 0 /\ ~uaf
          => /\ counter[Moved] = last.pre[Moved]
             /\ obj_pointer[last.b] = Null
             /\ obj_pointer[last.a] = Moved)

\* C4 amended: a move makes no add_ref, leaves the source null and the
\* target holding the source's former address; the count of the moved object
\* is unchanged, except that a move assignment into a different handle that
\* already held the same object releases that old reference: the count
\* drops by exactly 1.
C4_MoveCount ==
  last.op \in MoveCtors \cup MoveAssigns /\ last.a # last.b /\ Moved # Null
    => (last.pre_life[Moved] = "live"
          => /\ last.adds = 0
             /\ obj_pointer[last.b] = Null
             /\ obj_pointer[last.a] = Moved
             /\ counter[Moved] =
                  IF last.op \in MoveAssigns /\ last.pre_ptr[last.a] = Moved
                  THEN (last.pre[Moved] + Modulus - 1) % Modulus
                  ELSE last.pre[Moved]
             /\ last.op \in MoveCtors => last.rels = 0)

\* C4 witness: a move assignment into a handle that held the same object
C4_Witness ==
  /\ last.op = "MoveAssign" /\ last.a # last.b /\ Moved # Null
  /\ last.pre_ptr[last.a] = Moved
  /\ manual[Moved] = 0
  /\ last.pre[Moved] = 2 /\ counter[Moved] = 1
  /\ life[Moved] = "live"

\* C5: h = h and h = std::move(h) change no counter, no handle and no
\* object's life, and call neither add_ref nor release.
C5_SelfAssign ==
  last.op \in {"CopyAssign", "MoveAssign"} /\ last.a = last.b
    => /\ counter = last.pre
       /\ obj_pointer = last.pre_ptr
       /\ life = last.pre_life
       /\ last.adds = 0 /\ last.rels = 0

\* C5 witness: a self copy assignment of the only handle of a live object
C5_Witness ==
  /\ last.op = "CopyAssign" /\ last.a = last.b
  /\ obj_pointer[last.a] # Null
  /\ last.pre[obj_pointer[last.a]] = 1
  /\ life[obj_pointer[last.a]] = "live"

\* C6: for a handle h holding a live object O with count >= 1, h = h.get()
\* and h.reset(h.get()) leave O alive, its count as it was and h.get() = O.
C6_RawSelfAssign ==
  last.op \in {"RawAssign", "ResetRaw"} /\ last.p # Null
    => ((/\ last.pre_ptr[last.a] = last.p
         /\ last.pre_life[last.p] = "live"
         /\ last.pre[last.p] >= 1)
          => /\ life[last.p] = "live"
             /\ counter[last.p] = last.pre[last.p]
             /\ obj_pointer[last.a] = last.p)

\* C6 witness: h = h.get() on the only handle of an object (count 1)
C6_Witness ==
  /\ last.op = "RawAssign" /\ last.p # Null
  /\ last.pre_ptr[last.a] = last.p
  /\ last.pre[last.p] = 1 /\ manual[last.p] = 0
  /\ life[last.p] = "live" /\ counter[last.p] = 1

\* the call that has just run made neither an add_ref nor a release
Quiet == last.adds = 0 /\ last.rels = 0

\* C7: after detach() of a handle holding a live object the handle is null
\* and the count is what it was; after intrusive_ptr(p, false) from the
\* detached address the new handle holds the object and the count is still
\* what it was, neither call having made an add_ref or a release; the
\* destructor of the detached handle then leaves the object alive with the
\* same count.
C7_DetachAdopt ==
  /\ obs7.stage >= 1
       => /\ counter[obs7.o] = obs7.c
          /\ life[obs7.o] = "live"
          /\ Quiet
  /\ obs7.stage \in {1, 2} => hlive[obs7.h] /\ obj_pointer[obs7.h] = Null
  /\ obs7.stage >= 2 => hlive[obs7.h2] /\ obj_pointer[obs7.h2] = obs7.o

\* C7 witness: the detached handle was destroyed after the adoption of an
\* object with count 1
C7_Witness ==
  /\ obs7.stage = 3 /\ last.op = "Dtor"
  /\ obs7.c = 1 /\ Holders(obs7.o) = 1

\* C8: intrusive_ptr(p, false) makes no add_ref; detach() of that handle
\* returns exactly p and leaves the handle null; the handle's destructor
\* then makes no release; the counter of p is what it was throughout.
C8_AdoptDetach ==
  /\ obs8.stage >= 1
       => /\ obs8.o # Null => counter[obs8.o] = obs8.c
          /\ Quiet
  /\ obs8.stage = 1 => obj_pointer[obs8.h] = obs8.o
  /\ obs8.stage = 2
       => /\ obj_pointer[obs8.h] = Null
          /\ last.op = "Detach" => last.ret = obs8.o
  /\ obs8.stage = 3 /\ obs8.o # Null => life[obs8.o] = "live"

\* C8 witness: the round trip on a fresh object (count 0), handle destroyed
C8_Witness ==
  /\ obs8.stage = 3 /\ last.op = "Dtor"
  /\ obs8.o # Null /\ obs8.c = 0 /\ counter[obs8.o] = 0

\* C9: new A (0); H1(A) (1); H2(H1) (2); H3(std::move(H2)) (2, H2 null);
\* ~H3 (1); ~H1 (0): A's destructor runs at the last step and not before.
C9_Scenario ==
  LET A == scen9.o
      k == scen9.stage
  IN k >= 1 =>
       /\ k = 1 => counter[A] = 0
       /\ k = 2 => counter[A] = 1 /\ obj_pointer[scen9.h1] = A
       /\ k = 3 => counter[A] = 2 /\ obj_pointer[scen9.h2] = A
       /\ k = 4 => /\ counter[A] = 2
                   /\ obj_pointer[scen9.h2] = Null
                   /\ obj_pointer[scen9.h3] = A
       /\ k = 5 => counter[A] = 1
       /\ k <= 5 => life[A] = "live" /\ dtors[A] = 0
       /\ k = 6 => counter[A] = 0 /\ life[A] = "destroyed" /\ dtors[A] = 1

\* C9 witness: the scenario has run to its end
C9_Witness == scen9.stage = 6 /\ last.op = "Dtor"

\* C10: new B; intrusive_ptr_add_ref(B) (1); H(B, false) (still 1); ~H:
\* B's destructor runs exactly once.
C10_Scenario ==
  LET B == scen10.o
      k == scen10.stage
  IN k >= 1 =>
       /\ k = 1 => counter[B] = 0
       /\ k \in {2, 3} => counter[B] = 1
       /\ k = 3 => obj_pointer[scen10.h1] = B
       /\ k <= 3 => life[B] = "live" /\ dtors[B] = 0
       /\ k = 4 => life[B] = "destroyed" /\ dtors[B] = 1

\* C10 witness: the adopting handle has been destroyed
C10_Witness == scen10.stage = 4 /\ last.op = "Dtor"

\* the handles other than the one the last call was made on are as before
OthersKept == \A h \in Handles \ {last.a} : obj_pointer[h] = last.pre_ptr[h]

\* C11: after h.reset() the handle is null; the count of the object it held
\* has dropped by exactly 1 through one release, that object is destroyed iff
\* the count was 1, no other object and no other handle changes; reset() of
\* a null handle changes nothing and calls neither add_ref nor release.
C11_Reset ==
  last.op = "Reset" =>
    LET o == last.pre_ptr[last.a]
    IN /\ obj_pointer[last.a] = Null
       /\ OthersKept
       /\ hlive[last.a]
       /\ \A x \in Objs \ {o} :
            counter[x] = last.pre[x] /\ life[x] = last.pre_life[x]
       /\ o = Null => Quiet
       /\ o # Null =>
            /\ counter[o] = last.pre[o] - 1
            /\ last.adds = 0 /\ last.rels = 1
            /\ life[o] = "destroyed" <=> last.pre[o] = 1
            /\ life[o] = "live" <=> last.pre[o] > 1

\* C11 witness: reset() of the only handle of an object destroyed it while
\* another object kept its handle
C11_Witness ==
  /\ last.op = "Reset"
  /\ last.pre_ptr[last.a] # Null
  /\ last.pre[last.pre_ptr[last.a]] = 1
  /\ life[last.pre_ptr[last.a]] = "destroyed"
  /\ \E x \in Objs : x # last.pre_ptr[last.a] /\ counter[x] = 1

Swaps == {"Swap", "FreeSwap"}

\* C12: a.swap(b) and swap(a, b) exchange the two addresses and nothing
\* else: every counter and every object's life is as before, no add_ref and
\* no release is made, the other handles keep their addresses, and swapping
\* the same two handles again gives back the addresses they had.
C12_Swap ==
  last.op \in Swaps =>
    /\ obj_pointer[last.a] = last.pre_ptr[last.b]
    /\ obj_pointer[last.b] = last.pre_ptr[last.a]
    /\ \A h \in Handles \ {last.a, last.b} : obj_pointer[h] = last.pre_ptr[h]
    /\ counter = last.pre
    /\ life = last.pre_life
    /\ Quiet
    /\ swap(obj_pointer, last.a, last.b) = last.pre_ptr

\* C12 witness: the free swap exchanged two handles of different objects
\* with different counts
C12_Witness ==
  /\ last.op = "FreeSwap"
  /\ last.pre_ptr[last.a] # Null /\ last.pre_ptr[last.b] # Null
  /\ last.pre_ptr[last.a] # last.pre_ptr[last.b]
  /\ counter[last.pre_ptr[last.a]] # counter[last.pre_ptr[last.b]]
  /\ obj_pointer[last.a] = last.pre_ptr[last.b]

\* C13: a counted object has use_count() 0 right after its construction,
\* default or as a copy of an object with any count, and the construction
\* leaves every other counter alone; copy-assigning one counted object to
\* another leaves every counter, the assignee's and the source's included,
\* as it was.
C13_CountNotCopied ==
  /\ last.op \in {"NewObject", "ObjCopyCtor"} =>
       /\ use_count(last.p) = 0
       /\ life[last.p] = "live"
       /\ \A x \in Objs \ {last.p} : use_count(x) = last.pre[x]
  /\ last.op = "ObjAssign" =>
       /\ \A x \in Objs : use_count(x) = last.pre[x]
       /\ life = last.pre_life

\* C13 witness: an object was copy-constructed from a source with count 2
C13_Witness ==
  /\ last.op = "ObjCopyCtor"
  /\ last.pre[last.ret] = 2 /\ use_count(last.ret) = 2
  /\ use_count(last.p) = 0

\* C14: with handle instances shared between threads (one thread
\* copy-constructs from a handle while its owner resets it or assigns to
\* it), no add_ref, release or delete is applied to a destroyed object, and
\* once every call has returned the count of every live object is the number
\* of constructed handles that hold it.
C14_SharedHandles ==
  /\ ~uaf
  /\ Quiescent =>
       \A o \in Objs : life[o] = "live" => counter[o] = Holders(o)

Comparisons ==
  {"Equal", "NotEqual", "EqualRaw", "NotEqualRaw", "RawEqual", "RawNotEqual",
   "Less"}

\* how many of the given conditions hold
HowMany(conds) == Cardinality({i \in DOMAIN conds : conds[i]})

\* C15: a == b is true iff the two handles hold the same address and a != b
\* iff they do not (two null handles are equal, a null and a non-null one
\* are not); comparing a handle with a raw address, in either order, is true
\* iff the handle holds that address (resp. does not); a < b is true iff a's
\* address is below b's, never for a handle with itself, and exactly one of
\* a < b, b < a, a == b holds; a comparison changes no counter, no object and
\* no handle and calls neither add_ref nor release.
C15_Comparison ==
  last.op \in Comparisons =>
    LET x == IF last.a = 0 THEN last.p ELSE obj_pointer[last.a]
        y == IF last.b = 0 THEN last.p ELSE obj_pointer[last.b]
        yes == last.ret = 1
    IN /\ last.ret \in {0, 1}
       /\ counter = last.pre /\ life = last.pre_life
       /\ obj_pointer = last.pre_ptr
       /\ Quiet
       /\ last.op \in {"Equal", "EqualRaw", "RawEqual"} => (yes <=> x = y)
       /\ last.op \in {"NotEqual", "NotEqualRaw", "RawNotEqual"} =>
            (yes <=> ~(x = y))
       /\ last.op = "Equal" /\ x = Null /\ y = Null => yes
       /\ last.op = "Less" =>
            /\ yes <=> x < y
            /\ last.a = last.b => ~yes
            /\ HowMany(<<yes, operator_less(y, x), operator_eq(x, y)>>) = 1
            /\ yes => \A h \in Handles :
                        hlive[h] /\ operator_less(y, get(h))
                          => operator_less(x, get(h))

\* C15 witness: a < b was true of two handles of different objects
C15_Witness ==
  /\ last.op = "Less" /\ last.ret = 1
  /\ obj_pointer[last.a] # Null /\ obj_pointer[last.b] # Null
  /\ counter[obj_pointer[last.a]] = 1 /\ counter[obj_pointer[last.b]] = 2

CopyAssigns == {"CopyAssign", "ConvCopyAssign"}

\* C16: after a = b on two distinct handles (same-type or converting), a
\* holds b's address and b and every other handle are unchanged.  If the two
\* held different objects, b's object has one reference more and a's former
\* object one less, destroyed iff its count was 1.  If they held the same
\* object, its count is what it was and it is alive: the temporary's add_ref
\* came first, so the release saw count + 1 and the counter never went below
\* the prior count.  No other object changes.
C16_CopyAssign ==
  last.op \in CopyAssigns /\ last.a # last.b =>
    LET x == last.pre_ptr[last.a]
        y == last.pre_ptr[last.b]
    IN /\ obj_pointer[last.a] = y
       /\ OthersKept
       /\ \A o \in Objs \ {x, y} :
            counter[o] = last.pre[o] /\ life[o] = last.pre_life[o]
       /\ last.adds = (IF y = Null THEN 0 ELSE 1)
       /\ last.rels = (IF x = Null THEN 0 ELSE 1)
       /\ x # y /\ y # Null =>
            counter[y] = last.pre[y] + 1 /\ life[y] = "live"
       /\ x # y /\ x # Null =>
            /\ counter[x] = last.pre[x] - 1
            /\ life[x] = "destroyed" <=> last.pre[x] = 1
            /\ life[x] = "live" <=> last.pre[x] > 1
       /\ x = y /\ x # Null =>
            /\ counter[x] = last.pre[x]
            /\ life[x] = "live"
            /\ last.seen = last.pre[x] + 1
            /\ last.seen - 1 > 0

\* C16 witness: the converting assignment between two handles of the same
\* object, which has no other handle
C16_Witness ==
  /\ last.op = "ConvCopyAssign" /\ last.a # last.b
  /\ last.pre_ptr[last.a] # Null
  /\ last.pre_ptr[last.a] = last.pre_ptr[last.b]
  /\ last.pre[last.pre_ptr[last.a]] = 2
  /\ counter[last.pre_ptr[last.a]] = 2 /\ last.seen = 3

\* threads that have read the address of o from one of their handles and
\* are about to make the copy's intrusive_ptr_add_ref
Copying(o) ==
  {t \in Threads : thr[t].pc \in {"copy_inc", "assign_inc"} /\ thr[t].tmp = o}

\* C17: when threads work on their own handles only, the increment of a copy
\* construction or copy assignment finds the object alive and its counter at
\* 1 or more (at least the reference of the handle copied from, which the
\* copying thread still holds), whatever the other threads have released in
\* the meantime; no copy raises a counter from 0.
C17_CopyHoldsReference ==
  \A o \in Objs :
    Copying(o) # {} =>
      /\ life[o] = "live"
      /\ counter[o] >= 1
      /\ \A t \in Copying(o) :
           \E h \in Handles : Owner(h) = t /\ hlive[h] /\ obj_pointer[h] = o

\* C17 witness: a thread is about to increment for its copy while another
\* thread has just released its reference to the same object, leaving the
\* count at 1
C17_Witness ==
  \E o \in Objs, t, t2 \in Threads :
    /\ t # t2
    /\ t \in Copying(o) /\ thr[t].pc = "copy_inc"
    /\ thr[t2].pc = "done" /\ thr[t2].tmp = o /\ ~thr[t2].del
    /\ counter[o] = 1

\* C18: h.reset(h.get(), false) on a handle holding a live object O with
\* count c >= 1 makes no add_ref and one release, which sees c: h still
\* holds O, the count of O is c - 1, and O is destroyed iff c = 1, in which
\* case h holds the address of a destroyed object.
C18_SelfAdoption ==
  last.op = "ResetRawAddRef" /\ ~last.add_ref /\ last.p # Null =>
    ((/\ last.pre_ptr[last.a] = last.p
      /\ last.pre_life[last.p] = "live"
      /\ last.pre[last.p] >= 1)
       => /\ hlive[last.a] /\ obj_pointer[last.a] = last.p
          /\ counter[last.p] = last.pre[last.p] - 1
          /\ last.adds = 0 /\ last.rels = 1 /\ last.seen = last.pre[last.p]
          /\ life[last.p] = "destroyed" <=> last.pre[last.p] = 1
          /\ life[last.p] = "live" <=> last.pre[last.p] > 1
          /\ ~uaf)

\* C18 witness: the self-adoption on the only handle of an object (count 1)
\* destroyed the object the handle still holds
C18_Witness ==
  /\ last.op = "ResetRawAddRef" /\ ~last.add_ref /\ last.p # Null
  /\ last.pre_ptr[last.a] = last.p
  /\ last.pre[last.p] = 1 /\ last.pre_life[last.p] = "live"
  /\ life[last.p] = "destroyed" /\ dtors[last.p] = 1
  /\ hlive[last.a] /\ obj_pointer[last.a] = last.p

\* the object the last call released, if it released one: the address its
\* handle held before
Released == last.pre_ptr[last.a]

\* C19: a release of a live object whose dec() returns 0 does not destroy
\* it: the counter wraps to 2^CounterBits - 1 and the object stays alive; and
\* a call destroys a live object only through a release whose dec()
\* returned 1, so after the wrap no release that sees another value
\* destroys it.
C19_ReleaseAtZero ==
  /\ (/\ last.rels = 1 /\ last.seen = 0
      /\ Released # Null /\ last.pre_life[Released] = "live")
       => /\ counter[Released] = 2^CounterBits - 1
          /\ life[Released] = "live"
          /\ dtors[Released] = 0
  /\ \A o \in Objs :
       last.op # "none" /\ last.pre_life[o] = "live" /\ life[o] = "destroyed"
         => last.rels = 1 /\ last.seen = 1 /\ Released = o

\* C19 witness: the destructor of a handle that adopted a freshly
\* constructed object with add_ref = false released it at count 0
C19_Witness ==
  /\ last.op = "Dtor" /\ Released # Null
  /\ last.pre[Released] = 0 /\ last.seen = 0
  /\ manual[Released] = 1
  /\ counter[Released] = Modulus - 1 /\ life[Released] = "live"

====
